---- MODULE Spec2Model ----
(***************************************************************************)
(* Model of build_database.py: the three-tier IP range database builder.   *)
(* Spec      : one run of main() (key check, download, country map, row    *)
(*             classification, tiered merging, global sort, artifact).     *)
(* SpecMerge : tiered_merge_ranges as a pure function over bounded inputs. *)
(***************************************************************************)
EXTENDS Integers, Sequences, FiniteSets, TLC

VARIABLES pc, key, temp_dir, country_map, rows, tier1_data, tier2_data,
          tier3_data, all_entries, artifact, artifact_before, exit_status,
          log, m_pc, m_input, m_ranges, m_merged, m_again

vars == <<pc, key, temp_dir, country_map, rows, tier1_data, tier2_data,
          tier3_data, all_entries, artifact, artifact_before, exit_status,
          log, m_pc, m_input, m_ranges, m_merged, m_again>>

mainVars == <<pc, key, temp_dir, country_map, rows, tier1_data, tier2_data,
              tier3_data, all_entries, artifact, artifact_before,
              exit_status, log>>

mergeVars == <<m_pc, m_input, m_ranges, m_merged, m_again>>

(* ------------------------------ bounds --------------------------------- *)
MaxRows == 3
MaxLen == 3

(* --------------------------- configuration ----------------------------- *)
TIER1_COUNTRIES == {"CN", "HK", "JP", "KR", "US", "AU", "NZ", "SG"}

TIER2_COUNTRIES == {"DE", "GB", "FR", "RU", "IN", "CA", "IT", "NL", "TW"}

OTHER_COUNTRY_CODE == "ZZ"

Tier1Sorted == <<"AU", "CN", "HK", "JP", "KR", "NZ", "SG", "US">>

Tier2Sorted == <<"CA", "DE", "FR", "GB", "IN", "IT", "NL", "RU", "TW">>

TierLevels == {1, 2, 3}

(* ------------------------- tiered_merge_ranges ------------------------- *)
\* tuple comparison of Python: by start, ties by end
RangeLess(a, b) == a[1] < b[1] \/ (a[1] = b[1] /\ a[2] < b[2])

RECURSIVE InsertRange(_, _)
InsertRange(x, s) ==
    IF s = <<>> THEN <<x>>
    ELSE IF RangeLess(x, Head(s)) THEN <<x>> \o s
    ELSE <<Head(s)>> \o InsertRange(x, Tail(s))

RECURSIVE SortRanges(_)
SortRanges(s) ==
    IF s = <<>> THEN <<>>
    ELSE InsertRange(s[Len(s)], SortRanges(SubSeq(s, 1, Len(s) - 1)))

MergeThresholdSwapped(tier_level) ==
    IF tier_level = 1 THEN 1
    ELSE IF tier_level = 2 THEN 16777216
    ELSE 262144

MergeThreshold(tier_level) ==
    IF tier_level = 1 THEN 1
    ELSE IF tier_level = 2 THEN 262144
    ELSE 16777216

ShouldMergeByStart(s, cs, ce, threshold) == s - cs <= threshold

\* the test of line 101: the gap is measured from the current end
ShouldMerge(s, cs, ce, threshold) == s - ce <= threshold

ExtendEndAlways(ce, e) == e

\* lines 102-103: the current end only grows
ExtendEnd(ce, e) == IF e > ce THEN e ELSE ce

FinishDropLast(merged, last) == merged

\* line 108: the interval still open after the sweep is appended
Finish(merged, last) == Append(merged, last)

\* lines 90-108: one left-to-right pass over the sorted list
RECURSIVE Sweep(_, _, _, _, _)
Sweep(rest, cs, ce, merged, tier_level) ==
    IF rest = <<>> THEN Finish(merged, <<cs, ce>>)
    ELSE LET s == Head(rest)[1]
             e == Head(rest)[2]
         IN IF ShouldMerge(s, cs, ce, MergeThreshold(tier_level))
            THEN Sweep(Tail(rest), cs, ExtendEnd(ce, e), merged, tier_level)
            ELSE Sweep(Tail(rest), s, e, Append(merged, <<cs, ce>>), tier_level)

tiered_merge_ranges(ranges, tier_level) ==
    IF ranges = <<>> THEN <<>>
    ELSE LET sorted == SortRanges(ranges)
         IN Sweep(Tail(sorted), sorted[1][1], sorted[1][2], <<>>, tier_level)

(* ------------------------ inputs of one run ---------------------------- *)
KeyChoices == {"missing", "placeholder", "valid"}

\* content of the locations file: geoname_id -> country_iso_code
LocationsFile == ("1" :> "CN") @@ ("2" :> "DE") @@ ("3" :> "BR") @@ ("4" :> "")

Cidr(addr, len) == [kind |-> "cidr", addr |-> addr, len |-> len]

Absent == [kind |-> "absent", addr |-> 0, len |-> 0]

Row(reg, geo, net) ==
    [registered_country_geoname_id |-> reg, geoname_id |-> geo, network |-> net]

\* rows that resolve and parse; as in the feed, distinct blocks are disjoint
\* and a block belongs to one location: CN 0.0.1.0/24 and 0.0.5.0/24,
\* DE 0.0.0.0/24 and 0.0.2.0/24, BR 0.0.4.0/24 and 0.0.6.0/24
GoodRows ==
    {Row("1", "", Cidr(256, 24)), Row("1", "", Cidr(1280, 24))}
    \cup {Row("", "2", Cidr(0, 24)), Row("", "2", Cidr(512, 24))}
    \cup {Row("3", "1", Cidr(1024, 24)), Row("3", "1", Cidr(1536, 24))}

\* unknown identifier, identifier of an empty code, no identifier; host bits
\* set, prefix length out of range, no network column
BadRows ==
    {Row("9", "", Cidr(2048, 24)), Row("4", "1", Cidr(2304, 24)),
     Row("", "", Cidr(2560, 24))}
    \cup {Row("1", "", Cidr(257, 24)), Row("", "2", Cidr(0, 33)),
          Row("3", "1", Absent)}

RowChoices == GoodRows \cup BadRows

(* --------------------------- row handling ------------------------------ *)
\* line 160: row.get('registered_country_geoname_id') or row.get('geoname_id')
GeonameId(row) ==
    IF row.registered_country_geoname_id # ""
    THEN row.registered_country_geoname_id
    ELSE row.geoname_id

LookupDefaultOther(map, id) == IF id \in DOMAIN map THEN map[id] ELSE OTHER_COUNTRY_CODE

\* line 161: country_map.get(geoname_id, '')
Lookup(map, id) == IF id \in DOMAIN map THEN map[id] ELSE ""

\* number of addresses of a block with this prefix length
Pow2(n) == 2 ^ n

\* ip_network(...) of line 166 raises unless the text is a network whose
\* prefix length is in range and whose host bits are all zero; the networks
\* of the model lie in the lower half of the address space
NetworkParses(net) ==
    /\ net.kind = "cidr"
    /\ net.len \in 0..32
    /\ net.addr >= 0
    /\ net.addr % Pow2(32 - net.len) = 0

\* line 167: (network_address, broadcast_address) as integers
NetworkRange(net) == <<net.addr, net.addr + Pow2(32 - net.len) - 1>>

RouteNoTier2(country) ==
    IF country \in TIER1_COUNTRIES THEN "tier1" ELSE "tier3"

\* lines 169-174
Route(country) ==
    IF country \in TIER1_COUNTRIES THEN "tier1"
    ELSE IF country \in TIER2_COUNTRIES THEN "tier2"
    ELSE "tier3"

(* --------------------------- table assembly ---------------------------- *)
Tag(merged, code) == [i \in 1..Len(merged) |-> <<merged[i][1], merged[i][2], code>>]

\* lines 184-191 / 195-202: one pass over the sorted codes of a tier
RECURSIVE MergeCodes(_, _, _)
MergeCodes(codes, data, tier_level) ==
    IF codes = <<>> THEN <<>>
    ELSE Tag(tiered_merge_ranges(data[Head(codes)], tier_level), Head(codes))
         \o MergeCodes(Tail(codes), data, tier_level)

\* ranges.sort() of line 86 sorts the bucket itself
SortedBuckets(data) == [c \in DOMAIN data |-> SortRanges(data[c])]

RECURSIVE InsertByStart(_, _)
InsertByStart(x, s) ==
    IF s = <<>> THEN <<x>>
    ELSE IF x[1] < Head(s)[1] THEN <<x>> \o s
    ELSE <<Head(s)>> \o InsertByStart(x, Tail(s))

RECURSIVE StableSortByStart(_)
StableSortByStart(s) ==
    IF s = <<>> THEN <<>>
    ELSE InsertByStart(s[Len(s)], StableSortByStart(SubSeq(s, 1, Len(s) - 1)))

SortEntriesSkipped(entries) == entries

\* line 215: all_entries.sort(key=lambda x: x[0])
SortEntries(entries) == StableSortByStart(entries)

(* ------------------------------ one run -------------------------------- *)
EmptyBuckets(codes) == [c \in codes |-> <<>>]

NoMap == [id \in {} |-> ""]

MergeIdle ==
    /\ m_pc = "off"
    /\ m_input = <<>>
    /\ m_ranges = <<>>
    /\ m_merged = [L \in TierLevels |-> <<>>]
    /\ m_again = [L \in TierLevels |-> <<>>]

Init ==
    /\ pc = "start"
    /\ key \in KeyChoices
    /\ temp_dir \in BOOLEAN
    /\ artifact \in {"absent", "old"}
    /\ artifact_before = artifact
    /\ country_map = NoMap
    /\ rows = <<>>
    /\ tier1_data = EmptyBuckets(TIER1_COUNTRIES)
    /\ tier2_data = EmptyBuckets(TIER2_COUNTRIES)
    /\ tier3_data = <<>>
    /\ all_entries = <<>>
    /\ exit_status = 0
    /\ log = {}
    /\ MergeIdle

\* lines 261-268: print the error, sys.exit(1), remove the working directory
Abort ==
    /\ pc' = "failed"
    /\ exit_status' = 1
    /\ log' = log \cup {"error"}
    /\ temp_dir' = FALSE

\* lines 16-21: no licence key in the environment
KeyMissing ==
    /\ pc = "start"
    /\ key = "missing"
    /\ pc' = "failed"
    /\ exit_status' = 1
    /\ log' = log \cup {"error"}
    /\ UNCHANGED <<key, temp_dir, country_map, rows, tier1_data, tier2_data,
                   tier3_data, all_entries, artifact, artifact_before>>
    /\ UNCHANGED mergeVars

\* lines 120-122: the key is still the placeholder
KeyPlaceholder ==
    /\ pc = "start"
    /\ key = "placeholder"
    /\ pc' = "failed"
    /\ exit_status' = 1
    /\ log' = log \cup {"error"}
    /\ UNCHANGED <<key, temp_dir, country_map, rows, tier1_data, tier2_data,
                   tier3_data, all_entries, artifact, artifact_before>>
    /\ UNCHANGED mergeVars

\* lines 125-126: a stale working directory is removed
StartRun ==
    /\ pc = "start"
    /\ key = "valid"
    /\ temp_dir' = FALSE
    /\ pc' = "download"
    /\ UNCHANGED <<key, country_map, rows, tier1_data, tier2_data, tier3_data,
                   all_entries, artifact, artifact_before, exit_status, log>>
    /\ UNCHANGED mergeVars

\* lines 55-76 and 131
Download ==
    /\ pc = "download"
    /\ \E outcome \in {"ok", "error", "no_csv_dir"} :
         IF outcome = "ok"
         THEN /\ temp_dir' = TRUE
              /\ pc' = "load"
              /\ UNCHANGED <<exit_status, log>>
         ELSE Abort
    /\ UNCHANGED <<key, country_map, rows, tier1_data, tier2_data, tier3_data,
                   all_entries, artifact, artifact_before>>
    /\ UNCHANGED mergeVars

\* lines 135-146: the zh-CN file, else the en file
LoadCountryMap ==
    /\ pc = "load"
    /\ \E outcome \in {"zh", "en", "none"} :
         IF outcome = "none"
         THEN /\ Abort
              /\ UNCHANGED country_map
         ELSE /\ country_map' = LocationsFile
              /\ pc' = "open_blocks"
              /\ UNCHANGED <<exit_status, log, temp_dir>>
    /\ UNCHANGED <<key, rows, tier1_data, tier2_data, tier3_data, all_entries,
                   artifact, artifact_before>>
    /\ UNCHANGED mergeVars

\* lines 150-155
OpenBlocks ==
    /\ pc = "open_blocks"
    /\ \E ok \in BOOLEAN :
         IF ok
         THEN /\ pc' = "classify"
              /\ UNCHANGED <<exit_status, log, temp_dir>>
         ELSE Abort
    /\ UNCHANGED <<key, country_map, rows, tier1_data, tier2_data, tier3_data,
                   all_entries, artifact, artifact_before>>
    /\ UNCHANGED mergeVars

\* lines 156-176: one row of the blocks file
ReadRow ==
    /\ pc = "classify"
    /\ Len(rows) < MaxRows
    /\ \E row \in RowChoices :
         LET country == Lookup(country_map, GeonameId(row))
             rng == NetworkRange(row.network)
         IN /\ rows' = Append(rows, row)
            /\ IF country = "" \/ ~NetworkParses(row.network)
               THEN UNCHANGED <<tier1_data, tier2_data, tier3_data>>
               ELSE IF Route(country) = "tier1"
               THEN /\ tier1_data' = [tier1_data EXCEPT ![country] = Append(@, rng)]
                    /\ UNCHANGED <<tier2_data, tier3_data>>
               ELSE IF Route(country) = "tier2"
               THEN /\ tier2_data' = [tier2_data EXCEPT ![country] = Append(@, rng)]
                    /\ UNCHANGED <<tier1_data, tier3_data>>
               ELSE /\ tier3_data' = Append(tier3_data, rng)
                    /\ UNCHANGED <<tier1_data, tier2_data>>
    /\ UNCHANGED <<pc, key, temp_dir, country_map, all_entries, artifact,
                   artifact_before, exit_status, log>>
    /\ UNCHANGED mergeVars

\* the reader is exhausted
EndOfBlocks ==
    /\ pc = "classify"
    /\ pc' = "merge1"
    /\ UNCHANGED <<key, temp_dir, country_map, rows, tier1_data, tier2_data,
                   tier3_data, all_entries, artifact, artifact_before,
                   exit_status, log>>
    /\ UNCHANGED mergeVars

\* lines 180-191
MergeTier1 ==
    /\ pc = "merge1"
    /\ all_entries' = MergeCodes(Tier1Sorted, tier1_data, 1)
    /\ tier1_data' = SortedBuckets(tier1_data)
    /\ pc' = "merge2"
    /\ UNCHANGED <<key, temp_dir, country_map, rows, tier2_data, tier3_data,
                   artifact, artifact_before, exit_status, log>>
    /\ UNCHANGED mergeVars

\* lines 195-202
MergeTier2 ==
    /\ pc = "merge2"
    /\ all_entries' = all_entries \o MergeCodes(Tier2Sorted, tier2_data, 2)
    /\ tier2_data' = SortedBuckets(tier2_data)
    /\ pc' = "merge3"
    /\ UNCHANGED <<key, temp_dir, country_map, rows, tier1_data, tier3_data,
                   artifact, artifact_before, exit_status, log>>
    /\ UNCHANGED mergeVars

\* lines 206-211
MergeTier3 ==
    /\ pc = "merge3"
    /\ all_entries' = all_entries
                      \o Tag(tiered_merge_ranges(tier3_data, 3), OTHER_COUNTRY_CODE)
    /\ tier3_data' = SortRanges(tier3_data)
    /\ pc' = "sort"
    /\ UNCHANGED <<key, temp_dir, country_map, rows, tier1_data, tier2_data,
                   artifact, artifact_before, exit_status, log>>
    /\ UNCHANGED mergeVars

\* line 215
SortAll ==
    /\ pc = "sort"
    /\ all_entries' = SortEntries(all_entries)
    /\ pc' = "write"
    /\ UNCHANGED <<key, temp_dir, country_map, rows, tier1_data, tier2_data,
                   tier3_data, artifact, artifact_before, exit_status, log>>
    /\ UNCHANGED mergeVars

\* lines 229-230: open(OUTPUT_JSON, 'w') truncates, json.dump fills the file
WriteArtifact ==
    /\ pc = "write"
    /\ \E outcome \in {"open_fails", "dump_fails", "ok"} :
         IF outcome = "ok"
         THEN /\ artifact' = "new"
              /\ pc' = "report"
              /\ UNCHANGED <<exit_status, log, temp_dir>>
         ELSE /\ artifact' = IF outcome = "open_fails" THEN artifact ELSE "partial"
              /\ Abort
    /\ UNCHANGED <<key, country_map, rows, tier1_data, tier2_data, tier3_data,
                   all_entries, artifact_before>>
    /\ UNCHANGED mergeVars

\* lines 232-259 and 266-269: sizes and the completion banner are printed
Report ==
    /\ pc = "report"
    /\ log' = log \cup {"total_ranges", "file_size", "complete"}
    /\ temp_dir' = FALSE
    /\ pc' = "done"
    /\ UNCHANGED <<key, country_map, rows, tier1_data, tier2_data, tier3_data,
                   all_entries, artifact, artifact_before, exit_status>>
    /\ UNCHANGED mergeVars

Next ==
    \/ KeyMissing
    \/ KeyPlaceholder
    \/ StartRun
    \/ Download
    \/ LoadCountryMap
    \/ OpenBlocks
    \/ ReadRow
    \/ EndOfBlocks
    \/ MergeTier1
    \/ MergeTier2
    \/ MergeTier3
    \/ SortAll
    \/ WriteArtifact
    \/ Report

Spec == Init /\ [][Next]_vars

(* ------------------- tiered_merge_ranges on its own -------------------- *)
Points == {0, 1, 3, 262145, 262148, 17039361}

InputRanges == {r \in Points \X Points : r[1] <= r[2]}

InputLists == UNION {[1..n -> InputRanges] : n \in 0..MaxLen}

MainIdle ==
    /\ pc = "off"
    /\ key = "valid"
    /\ temp_dir = FALSE
    /\ artifact = "absent"
    /\ artifact_before = "absent"
    /\ country_map = NoMap
    /\ rows = <<>>
    /\ tier1_data = EmptyBuckets(TIER1_COUNTRIES)
    /\ tier2_data = EmptyBuckets(TIER2_COUNTRIES)
    /\ tier3_data = <<>>
    /\ all_entries = <<>>
    /\ exit_status = 0
    /\ log = {}

InitMerge ==
    /\ MainIdle
    /\ m_pc = "input"
    /\ m_input \in InputLists
    /\ m_ranges = m_input
    /\ m_merged = [L \in TierLevels |-> <<>>]
    /\ m_again = [L \in TierLevels |-> <<>>]

\* the same list merged at each tier level
CallMerge ==
    /\ m_pc = "input"
    /\ m_merged' = [L \in TierLevels |-> tiered_merge_ranges(m_ranges, L)]
    /\ m_ranges' = SortRanges(m_ranges)
    /\ m_pc' = "merged"
    /\ UNCHANGED <<m_input, m_again>>
    /\ UNCHANGED mainVars

\* each result merged once more at its own level
CallAgain ==
    /\ m_pc = "merged"
    /\ m_again' = [L \in TierLevels |-> tiered_merge_ranges(m_merged[L], L)]
    /\ m_pc' = "remerged"
    /\ UNCHANGED <<m_input, m_ranges, m_merged>>
    /\ UNCHANGED mainVars

NextMerge ==
    \/ CallMerge
    \/ CallAgain

SpecMerge == InitMerge /\ [][NextMerge]_vars

(* ------------------------------ properties ----------------------------- *)
Overlap(a, b) == a[1] <= b[2] /\ b[1] <= a[2]

NoOverlap(t) ==
    \A i, j \in 1..Len(t) : i # j => ~Overlap(t[i], t[j])

Covered(a, t) == \E i \in 1..Len(t) : t[i][1] <= a /\ a <= t[i][2]

\* two unions of closed integer intervals differ, if at all, at an endpoint
\* of one of the intervals or at a neighbour of one
Probes(t, u) ==
    UNION {{r[1] - 1, r[1], r[1] + 1, r[2] - 1, r[2], r[2] + 1} :
           r \in {t[i] : i \in 1..Len(t)} \cup {u[i] : i \in 1..Len(u)}}

SameCoverage(t, u) ==
    \A a \in Probes(t, u) : Covered(a, t) <=> Covered(a, u)

CoverageKept(t, u) ==
    \A a \in Probes(t, u) : Covered(a, t) => Covered(a, u)

\* an address u covers and t does not lies in a gap between ranges of t
AddedInGaps(t, u) ==
    \A a \in Probes(t, u) :
        (Covered(a, u) /\ ~Covered(a, t)) =>
            /\ \E i \in 1..Len(t) : t[i][2] < a
            /\ \E i \in 1..Len(t) : a < t[i][1]

\* C1: when the run has finished, no two distinct entries of the final table
\* have overlapping ranges, whatever their codes and tiers.
C1_Disjointness == pc = "done" => NoOverlap(all_entries)

\* C2 (as stated): at every tier level the merged ranges cover exactly the
\* addresses the input ranges cover.
C2_CoverageConserved ==
    m_pc = "merged" => \A L \in TierLevels : SameCoverage(m_input, m_merged[L])

\* C2 (amended): merging drops no address at any tier level and adds none at
\* tier level 1; at levels 2 and 3 an added address lies in a gap between
\* input ranges.
C2_CoverageKept ==
    m_pc = "merged" =>
        /\ \A L \in TierLevels : CoverageKept(m_input, m_merged[L])
        /\ \A L \in TierLevels : AddedInGaps(m_input, m_merged[L])
        /\ SameCoverage(m_input, m_merged[1])

C2_Witness ==
    /\ m_pc = "merged"
    /\ Len(m_input) = 3
    /\ Len(m_merged[1]) = 2
    /\ Len(m_merged[2]) = 1
    /\ ~SameCoverage(m_input, m_merged[2])
    /\ \E i \in 1..3 : m_input[i][2] < m_merged[1][1][2] /\ m_input[i][1] > m_merged[1][1][1]

\* C3: a run that ends with an error leaves database.json as it was before
\* the run and exits with a non-zero status.
C3_AllOrNothing ==
    pc = "failed" => (artifact = artifact_before /\ exit_status # 0)

IsSortedByStart(t) == \A i \in 1..(Len(t) - 1) : t[i][1] <= t[i + 1][1]

\* C4: after the global sort the starts of consecutive entries never decrease.
C4_Sortedness == pc \in {"write", "report", "done"} => IsSortedByStart(all_entries)

C4_Witness ==
    /\ pc = "done"
    /\ \E i, j \in 1..Len(all_entries) :
         /\ i < j
         /\ all_entries[i][3] = OTHER_COUNTRY_CODE
         /\ all_entries[j][3] \in TIER1_COUNTRIES
    /\ \E i, j \in 1..Len(all_entries) :
         /\ i < j
         /\ all_entries[i][3] \in TIER2_COUNTRIES
         /\ all_entries[j][3] \in TIER1_COUNTRIES

\* C5: a run never finishes successfully with two overlapping entries in the
\* table unless it has reported the overlap.
C5_OverlapReported ==
    (pc = "done" /\ ~NoOverlap(all_entries)) => "overlap_anomaly" \in log

RawCode(row) ==
    IF GeonameId(row) \in DOMAIN country_map THEN country_map[GeonameId(row)] ELSE ""

Skipped(row) == RawCode(row) = "" \/ ~NetworkParses(row.network)

C6_Step ==
    (pc = "classify" /\ rows' # rows /\ ~Skipped(rows'[Len(rows')])) =>
        LET row == rows'[Len(rows')]
            c == RawCode(row)
            r == NetworkRange(row.network)
        IN /\ c \in TIER1_COUNTRIES =>
                /\ tier1_data' = [tier1_data EXCEPT ![c] = Append(@, r)]
                /\ tier2_data' = tier2_data
                /\ tier3_data' = tier3_data
           /\ (c \notin TIER1_COUNTRIES /\ c \in TIER2_COUNTRIES) =>
                /\ tier2_data' = [tier2_data EXCEPT ![c] = Append(@, r)]
                /\ tier1_data' = tier1_data
                /\ tier3_data' = tier3_data
           /\ (c \notin TIER1_COUNTRIES /\ c \notin TIER2_COUNTRIES) =>
                /\ tier3_data' = Append(tier3_data, r)
                /\ tier1_data' = tier1_data
                /\ tier2_data' = tier2_data

\* C6: the tier-1 and tier-2 sets are disjoint and neither holds 'ZZ'; a row
\* with a non-empty code and a parseable network is appended to exactly one
\* bucket: its code's tier-1 list, else its code's tier-2 list, else tier 3.
C6_Routing ==
    /\ [](TIER1_COUNTRIES \cap TIER2_COUNTRIES = {})
    /\ [](OTHER_COUNTRY_CODE \notin TIER1_COUNTRIES \cup TIER2_COUNTRIES)
    /\ [][C6_Step]_vars

C6_Witness ==
    /\ pc = "classify"
    /\ \E c \in TIER1_COUNTRIES : tier1_data[c] # <<>>
    /\ \E c \in TIER2_COUNTRIES : tier2_data[c] # <<>>
    /\ tier3_data # <<>>

RangesOf(rs) == [i \in 1..Len(rs) |-> NetworkRange(rs[i].network)]

KeptForCode(rs, c) ==
    LET Test(row) == ~Skipped(row) /\ RawCode(row) = c
    IN RangesOf(SelectSeq(rs, Test))

KeptForOthers(rs) ==
    LET Test(row) == ~Skipped(row)
                     /\ RawCode(row) \notin TIER1_COUNTRIES \cup TIER2_COUNTRIES
    IN RangesOf(SelectSeq(rs, Test))

C7_Step ==
    (pc = "classify" /\ rows' # rows /\ Skipped(rows'[Len(rows')])) =>
        /\ tier1_data' = tier1_data
        /\ tier2_data' = tier2_data
        /\ tier3_data' = tier3_data
        /\ pc' = "classify"

C7_Others ==
    pc = "classify" =>
        /\ \A c \in TIER1_COUNTRIES : tier1_data[c] = KeptForCode(rows, c)
        /\ \A c \in TIER2_COUNTRIES : tier2_data[c] = KeptForCode(rows, c)
        /\ tier3_data = KeptForOthers(rows)

\* C7: a row whose identifier is unknown or maps to an empty code, or whose
\* network does not parse, adds nothing to any bucket and does not end the
\* run; the buckets hold exactly what the other rows contribute.
C7_SkippedRows == [][C7_Step]_vars /\ []C7_Others

C7_Witness ==
    /\ pc = "classify"
    /\ Len(rows) = 3
    /\ ~Skipped(rows[1])
    /\ Skipped(rows[2])
    /\ GeonameId(rows[2]) \notin DOMAIN country_map
    /\ ~Skipped(rows[3])
    /\ tier3_data # <<>>

\* C8: merging a merged list again at the same tier level returns it
\* unchanged, element for element.
C8_Idempotent ==
    m_pc = "remerged" => \A L \in TierLevels : m_again[L] = m_merged[L]

C8_Witness ==
    /\ m_pc = "remerged"
    /\ Len(m_input) = 3
    /\ Len(m_merged[2]) = 2
    /\ m_again[2] = m_merged[2]

\* C9: tier level 3 returns at most as many intervals as level 2, and level 2
\* at most as many as level 1.
C9_Monotone ==
    m_pc = "merged" =>
        /\ Len(m_merged[3]) <= Len(m_merged[2])
        /\ Len(m_merged[2]) <= Len(m_merged[1])

C9_Witness ==
    /\ m_pc = "merged"
    /\ Len(m_merged[3]) < Len(m_merged[2])
    /\ Len(m_merged[2]) < Len(m_merged[1])

MergedWell(t, threshold) ==
    /\ \A i \in 1..Len(t) : t[i][1] <= t[i][2]
    /\ \A i \in 1..(Len(t) - 1) : t[i][1] <= t[i + 1][1]
    /\ NoOverlap(t)
    /\ \A i \in 1..(Len(t) - 1) : t[i + 1][1] - t[i][2] > threshold

\* C10: one call returns a list sorted by start, of ranges with start <= end,
\* pairwise disjoint, consecutive ranges further apart than the tier's
\* threshold; an empty input gives an empty list.
C10_MergePost ==
    m_pc = "merged" =>
        /\ MergedWell(m_merged[1], 1)
        /\ MergedWell(m_merged[2], 262144)
        /\ MergedWell(m_merged[3], 16777216)
        /\ \A L \in TierLevels : (m_input = <<>>) <=> (m_merged[L] = <<>>)

C10_Witness ==
    /\ m_pc = "merged"
    /\ Len(m_input) = 3
    /\ Len(m_merged[1]) = 2
    /\ Len(m_merged[3]) = 2
    /\ \E i, j \in 1..3 : i # j /\ Overlap(m_input[i], m_input[j])

====
